---- MODULE Spec2Model ----
(***************************************************************************)
(* A model of sparse_model.py: the sparse / dense multi-head attention     *)
(* blocks, the positional encoding, the encoder / decoder stacks, the      *)
(* Transformer forward pass and build_sparse_transformer.                  *)
(*                                                                         *)
(* Floating point values are abstracted to the classes that decide NaN     *)
(* propagation ("fin", "min" = finfo.min, "ninf" = -inf, "nan"); learned   *)
(* projections are uninterpreted terms <<weight, input>>, so two outputs   *)
(* are equal in the model only if the same data flowed into them.          *)
(* Positions q, k are 0-based as in the source; batch and head indices are *)
(* 1-based.                                                                *)
(***************************************************************************)
EXTENDS Integers, Sequences, FiniteSets, TLC

VARIABLES
    attn,       \* the last attention call (dense or sparse) and its result
    pair,       \* two sparse forward calls that differ in k and v only
    hp,         \* the hyperparameters handed to build_sparse_transformer
    built,      \* what build_sparse_transformer did with them
    model,      \* a built Transformer (its layer lists and table lengths)
    args,       \* the arguments of the Transformer.forward call in progress
    pc,         \* the position of Transformer.forward
    layer,      \* the index of the encoder / decoder layer being run
    heap,       \* per tensor: was it written in place (data, metadata)
    trace,      \* the sublayers run so far by the call in progress
    hd          \* the head split / merge round trip of one tensor

vars == <<attn, pair, hp, built, model, args, pc, layer, heap, trace, hd>>

----------------------------------------------------------------------------
(* Bounds of the model.                                                    *)

MaxT == 2          \* sequence lengths 1..MaxT in attention calls
MaxMaskCells == 7  \* an external mask has at most this many entries
MaxLayers == 2     \* N in 0..MaxLayers
MaxDModel == 4     \* d_model in 2..MaxDModel
MaxHeads == 3      \* h in 0..MaxHeads at build time
MaxLen == 2        \* positional table lengths 1..MaxLen, inputs 1..MaxLen+1

Pos(T) == 0 .. (T - 1)
Batches == {1, 2}
Inputs == {"x", "enc"}      \* the activations a caller can pass as q, k, v

----------------------------------------------------------------------------
(* Masks.  An external mask is [null, dim, Bm, Qm, T, data]: data is       *)
(* indexed [b, q, k] with b in 1..Bm, q in Pos(Qm), k in Pos(T); its       *)
(* shape is (Bm, Qm, T) when dim = 3 and (Bm, 1, Qm, T) when dim = 4.      *)

NullMask == [null |-> TRUE, dim |-> 0, Bm |-> 0, Qm |-> 0, T |-> 0,
             data |-> [i \in {} |-> TRUE]]

MaskData(Bm, Qm, T) == [(1 .. Bm) \X Pos(Qm) \X Pos(T) -> BOOLEAN]

Mask(dim, Bm, Qm, T, data) ==
    [null |-> FALSE, dim |-> dim, Bm |-> Bm, Qm |-> Qm, T |-> T, data |-> data]

\* The shapes (Bm, Qm) of a mask broadcastable to (B, H, Tq, Tk), within
\* MaxMaskCells entries.
MaskShapes(B, Tq, Tk) ==
    { s \in {1, B} \X {1, Tq} : s[1] * s[2] * Tk <= MaxMaskCells }

\* mask.unsqueeze(1): (Bm, Qm, T) -> (Bm, 1, Qm, T); the data are shared.
Unsqueeze1(mask) == [mask EXCEPT !.dim = 4]

\* mask.expand(B, h, T, T) of a (Bm, 1, Qm, T) mask: a size-1 dimension is
\* replicated, any other must already have the target size.
Expand(mask, B, h, Tq, Tk) ==
    [b \in 1 .. B, hh \in 1 .. h, q \in Pos(Tq), k \in Pos(Tk) |->
        mask.data[<<(IF mask.Bm = 1 THEN 1 ELSE b),
                    (IF mask.Qm = 1 THEN 0 ELSE q), k>>]]

\* create_sparse_mask(seq_len, block_size, stride, causal) of utils: same
\* block of block_size positions, or a multiple of stride away; with causal,
\* intersected with the lower triangle.
create_sparse_mask(seq_len, block_size, stride, causal) ==
    [q \in Pos(seq_len), k \in Pos(seq_len) |->
        /\ \/ q \div block_size = k \div block_size
           \/ (q - k) % stride = 0
        /\ (causal => k <= q)]

----------------------------------------------------------------------------
(* SparseMultiHeadAttentionBlock and MultiHeadAttentionBlock.              *)

Err(what) == [ok |-> FALSE, error |-> what]

SparseMultiHeadAttentionBlock_init(d_model, h, block_size, stride, causal) ==
    IF h = 0 THEN Err("ZeroDivisionError")            \* d_model // h
    ELSE IF d_model % h # 0 THEN Err("AssertionError")
    ELSE [ok |-> TRUE, kind |-> "sparse", d_model |-> d_model, h |-> h,
          d_k |-> d_model \div h, block_size |-> block_size,
          stride |-> stride, causal |-> causal]

MultiHeadAttentionBlock_init(d_model, h) ==
    IF h = 0 THEN Err("ZeroDivisionError")            \* d_model % h
    ELSE IF d_model % h # 0 THEN Err("AssertionError")
    ELSE [ok |-> TRUE, kind |-> "dense", d_model |-> d_model, h |-> h,
          d_k |-> d_model \div h]

\* nn.Linear without bias, as an uninterpreted term.
Linear(w, x) == <<w, x>>

\* compute_qkv(self, x): the three projections of the one tensor x.
compute_qkv(self, x) ==
    [query |-> Linear("w_q", x), key |-> Linear("w_k", x), value |-> Linear("w_v", x)]

build_sparse_mask_noncausal(self, seq_len, batch_size) ==
    LET base_mask == create_sparse_mask(seq_len, self.block_size, self.stride, FALSE)
    IN  [b \in 1 .. batch_size, hh \in 1 .. self.h, q \in Pos(seq_len), k \in Pos(seq_len) |->
            base_mask[q, k]]

build_sparse_mask(self, seq_len, batch_size) ==
    LET base_mask == create_sparse_mask(seq_len, self.block_size, self.stride, self.causal)
    IN  [b \in 1 .. batch_size, hh \in 1 .. self.h, q \in Pos(seq_len), k \in Pos(seq_len) |->
            base_mask[q, k]]

\* The order of the score classes: -inf < finfo.min < any computed score.
Rank(s) == CASE s = "ninf" -> 0 [] s = "min" -> 1 [] s = "fin" -> 2

\* softmax over one row of scores, keys Pos(Tk): exp(x - max) / sum.
\* -inf - (-inf) is NaN and poisons the row; otherwise an entry below the
\* row's maximum class underflows to zero and the others are positive.
SoftmaxRow(row, Tk) ==
    LET top == CHOOSE s \in {row[k] : k \in Pos(Tk)} :
                    \A k \in Pos(Tk) : Rank(row[k]) <= Rank(s)
    IN  [k \in Pos(Tk) |->
            IF top = "ninf" THEN "nan"
            ELSE IF row[k] = "ninf" THEN "zero"
            ELSE IF Rank(row[k]) < Rank(top) THEN "zero"
            ELSE "pos"]

Softmax(scores, B, h, Tq, Tk) ==
    [b \in 1 .. B, hh \in 1 .. h, q \in Pos(Tq), k \in Pos(Tk) |->
        SoftmaxRow([kk \in Pos(Tk) |-> scores[b, hh, q, kk]], Tk)[k]]

\* weights @ value: a row of the output is NaN iff one of its weights is.
NanRows(weights, B, h, Tq, Tk) ==
    { <<b, hh, q>> \in (1 .. B) \X (1 .. h) \X Pos(Tq) :
        \E k \in Pos(Tk) : weights[b, hh, q, k] = "nan" }

SparseFill == "ninf"        \* float("-inf")
DenseFill == "min"          \* torch.finfo(dtype).min

\* scores.masked_fill(~mask, fill) on freshly computed scores.
MaskedFill(mask, fill, B, h, Tq, Tk) ==
    [b \in 1 .. B, hh \in 1 .. h, q \in Pos(Tq), k \in Pos(Tk) |->
        IF mask[b, hh, q, k] THEN "fin" ELSE fill]

compute_attention(self, qkv, mask, B, T) ==
    LET scores == MaskedFill(mask, SparseFill, B, self.h, T, T)
        attn_weights == Softmax(scores, B, self.h, T, T)
    IN  [scores |-> scores, weights |-> attn_weights,
         nan |-> NanRows(attn_weights, B, self.h, T, T),
         term |-> <<"attend", qkv>>]

\* output_projection: merge the heads, then w_o.
output_projection(a) == [a EXCEPT !.term = Linear("w_o", a.term)]

\* The forward that lines 133-139 keep as a comment: the sparse mask alone.
SparseEffectiveMask_nomask(self, mask, B, T) == build_sparse_mask(self, T, B)

\* forward, lines 144-152: the mask that reaches compute_attention.
SparseEffectiveMask(self, mask, B, T) ==
    LET sparse_mask == build_sparse_mask(self, T, B)
    IN  IF ~mask.null
        THEN LET m4 == IF mask.dim = 3 THEN Unsqueeze1(mask) ELSE mask
                 ex == Expand(m4, B, self.h, T, T)
             IN  [b \in 1 .. B, hh \in 1 .. self.h, q \in Pos(T), k \in Pos(T) |->
                     sparse_mask[b, hh, q, k] /\ ex[b, hh, q, k]]
        ELSE sparse_mask

\* A forward that projects k and v from its k and v arguments.
SparseForward_kv(self, q, k, v, mask, B, T) ==
    LET qkv == [query |-> Linear("w_q", q), key |-> Linear("w_k", k),
                value |-> Linear("w_v", v)]
        attn_mask == SparseEffectiveMask(self, mask, B, T)
        attn_out == compute_attention(self, qkv, attn_mask, B, T)
    IN  [out |-> output_projection(attn_out), eff |-> attn_mask]

SparseForward(self, q, k, v, mask, B, T) ==
    LET qkv == compute_qkv(self, q)
        attn_mask == SparseEffectiveMask(self, mask, B, T)
        attn_out == compute_attention(self, qkv, attn_mask, B, T)
    IN  [out |-> output_projection(attn_out), eff |-> attn_mask]

\* MultiHeadAttentionBlock.attention: masked_fill_ where mask == 0, in place
\* on the scores just computed; no fill at all without a mask.
DenseAttention(qkv, mask, B, h, Tq, Tk) ==
    LET scores ==
            IF ~mask.null
            THEN MaskedFill(Expand(mask, B, h, Tq, Tk), DenseFill, B, h, Tq, Tk)
            ELSE [b \in 1 .. B, hh \in 1 .. h, q \in Pos(Tq), k \in Pos(Tk) |-> "fin"]
        w == Softmax(scores, B, h, Tq, Tk)
    IN  [scores |-> scores, weights |-> w, nan |-> NanRows(w, B, h, Tq, Tk),
         term |-> <<"attend", qkv>>]

\* MultiHeadAttentionBlock.forward: q, k and v are projected separately.
DenseForward(self, q, k, v, mask, B, Tq, Tk) ==
    LET qkv == [query |-> Linear("w_q", q), key |-> Linear("w_k", k),
                value |-> Linear("w_v", v)]
        x == DenseAttention(qkv, mask, B, self.h, Tq, Tk)
    IN  [out |-> [x EXCEPT !.term = Linear("w_o", x.term)],
         eff |-> IF mask.null
                 THEN [b \in 1 .. B, hh \in 1 .. self.h, qi \in Pos(Tq), ki \in Pos(Tk) |-> TRUE]
                 ELSE Expand(mask, B, self.h, Tq, Tk)]

----------------------------------------------------------------------------
(* Attention calls.  The self-attention blocks are the ones                *)
(* build_sparse_transformer constructs: causal=False in an encoder block,  *)
(* causal=True in a decoder block; EncoderBlock / DecoderBlock call them   *)
(* as (x, x, x, mask) and the cross-attention as (x, enc, enc, src_mask).  *)

Heads == {1, 2}
HeadWidth == {1, 2}         \* d_k; d_model = h * d_k in the calls below

encoder_self_attention_block(d_model, h, block_size, stride) ==
    SparseMultiHeadAttentionBlock_init(d_model, h, block_size, stride, FALSE)

decoder_self_attention_block(d_model, h, block_size, stride) ==
    SparseMultiHeadAttentionBlock_init(d_model, h, block_size, stride, TRUE)

decoder_cross_attention_block(d_model, h) == MultiHeadAttentionBlock_init(d_model, h)

NoCall == [kind |-> "none"]

\* An attention block is constructed, then called.
ConstructSparse ==
    /\ attn.kind = "none"
    /\ \E role \in {"encoder", "decoder"}, h \in Heads :
       \E block_size \in 1 .. MaxT, stride \in 1 .. MaxT :
          attn' = [kind |-> "block", role |-> role,
                   self |-> IF role = "decoder"
                            THEN decoder_self_attention_block(2 * h, h, block_size, stride)
                            ELSE encoder_self_attention_block(2 * h, h, block_size, stride)]

ConstructDense ==
    /\ attn.kind = "none"
    /\ \E h \in Heads :
          attn' = [kind |-> "block", role |-> "decoder",
                   self |-> decoder_cross_attention_block(2 * h, h)]

\* EncoderBlock / DecoderBlock.forward: self_attention_block(x, x, x, mask).
SparseCall(B, T, mask) ==
    LET r == SparseForward(attn.self, "x", "x", "x", mask, B, T)
    IN  attn' = [kind |-> "sparse", role |-> attn.role, self |-> attn.self, B |-> B,
                 Tq |-> T, Tk |-> T, mask |-> mask, eff |-> r.eff,
                 scores |-> r.out.scores, weights |-> r.out.weights,
                 nan |-> r.out.nan, term |-> r.out.term]

\* DecoderBlock.forward: cross_attention_block(x, enc, enc, src_mask).
DenseCall(B, Tq, Tk, mask) ==
    LET r == DenseForward(attn.self, "x", "enc", "enc", mask, B, Tq, Tk)
    IN  attn' = [kind |-> "dense", role |-> attn.role, self |-> attn.self, B |-> B,
                 Tq |-> Tq, Tk |-> Tk, mask |-> mask, eff |-> r.eff,
                 scores |-> r.out.scores, weights |-> r.out.weights,
                 nan |-> r.out.nan, term |-> r.out.term]

SparseSelfAttention ==
    /\ attn.kind = "block" /\ attn.self.kind = "sparse"
    /\ \E B \in Batches, T \in 1 .. MaxT :
          \/ SparseCall(B, T, NullMask)
          \/ \E dim \in {3, 4}, s \in MaskShapes(B, T, T) :
             \E data \in MaskData(s[1], s[2], T) :
                SparseCall(B, T, Mask(dim, s[1], s[2], T, data))

DenseCrossAttention ==
    /\ attn.kind = "block" /\ attn.self.kind = "dense"
    /\ \E B \in Batches, Tq \in 1 .. MaxT, Tk \in 1 .. MaxT :
          \/ DenseCall(B, Tq, Tk, NullMask)
          \/ \E s \in MaskShapes(B, Tq, Tk) :
             \E data \in MaskData(s[1], s[2], Tk) :
                DenseCall(B, Tq, Tk, Mask(4, s[1], s[2], Tk, data))

\* Two calls of one sparse block with the same q and mask (a key-padding
\* mask of shape (1, 1, 1, T), or none).
SparsePair ==
    /\ pair.kind = "none"
    /\ \E role \in {"encoder", "decoder"}, h \in Heads, T \in 1 .. MaxT :
       \E block_size \in 1 .. MaxT, stride \in 1 .. MaxT :
       \E q \in Inputs, k1 \in Inputs, v1 \in Inputs, k2 \in Inputs, v2 \in Inputs :
       \E mask \in {NullMask} \cup { Mask(4, 1, 1, T, m) : m \in MaskData(1, 1, T) } :
          LET self == IF role = "decoder"
                      THEN decoder_self_attention_block(2 * h, h, block_size, stride)
                      ELSE encoder_self_attention_block(2 * h, h, block_size, stride)
          IN  pair' = [kind |-> "pair", self |-> self, q |-> q, mask |-> mask,
                       k1 |-> k1, v1 |-> v1, k2 |-> k2, v2 |-> v2,
                       out1 |-> SparseForward(self, q, k1, v1, mask, 1, T).out,
                       out2 |-> SparseForward(self, q, k2, v2, mask, 1, T).out]

AttentionReturn == attn.kind \in {"sparse", "dense"} /\ attn' = NoCall
PairReturn == pair.kind # "none" /\ pair' = NoCall

----------------------------------------------------------------------------
(* Specifications.  Each one moves its own variables and leaves the rest   *)
(* at their idle values.                                                   *)

IdleAttn == attn = NoCall
IdlePair == pair = NoCall
IdleBuild == hp = NoCall /\ built = NoCall
IdleFwd == /\ model = NoCall /\ args = NoCall /\ pc = "none" /\ layer = 0
           /\ heap = NoCall /\ trace = <<>>
IdleHeads == hd = NoCall

varsAttn == <<pair, hp, built, model, args, pc, layer, heap, trace, hd>>
varsPair == <<attn, hp, built, model, args, pc, layer, heap, trace, hd>>

InitAttn == attn = NoCall /\ IdlePair /\ IdleBuild /\ IdleFwd /\ IdleHeads
NextAttn ==
    \/ ConstructSparse /\ UNCHANGED varsAttn
    \/ ConstructDense /\ UNCHANGED varsAttn
    \/ SparseSelfAttention /\ UNCHANGED varsAttn
    \/ DenseCrossAttention /\ UNCHANGED varsAttn
    \/ AttentionReturn /\ UNCHANGED varsAttn
SpecAttn == InitAttn /\ [][NextAttn]_vars

InitPair == pair = NoCall /\ IdleAttn /\ IdleBuild /\ IdleFwd /\ IdleHeads
NextPair ==
    \/ SparsePair /\ UNCHANGED varsPair
    \/ PairReturn /\ UNCHANGED varsPair
SpecPair == InitPair /\ [][NextPair]_vars

----------------------------------------------------------------------------
(* Claims about the attention blocks (SpecAttn, SpecPair).                 *)

Called == attn.kind \in {"sparse", "dense"}
Cells == (1 .. attn.B) \X (1 .. attn.self.h) \X Pos(attn.Tq) \X Pos(attn.Tk)
Rows == (1 .. attn.B) \X (1 .. attn.self.h) \X Pos(attn.Tq)

\* The external mask's entry for batch b, query q, key k: a dimension of
\* size 1 stands for every index.
External(b, q, k) ==
    attn.mask.data[<<(IF attn.mask.Bm = 1 THEN 1 ELSE b),
                     (IF attn.mask.Qm = 1 THEN 0 ELSE q), k>>]

RowBlocked(r) == \A k \in Pos(attn.Tk) : ~attn.eff[r[1], r[2], r[3], k]

\* C1: in the dense and in the sparse attention every masked score is filled
\* with a finite value, never -inf, so every softmax row, a fully masked one
\* included, is a finite distribution and the output holds no NaN.
C1_MaskedScoresFinite ==
    Called =>
        /\ \A c \in Cells : ~attn.eff[c] => attn.scores[c] = "min"
        /\ \A c \in Cells : attn.weights[c] # "nan"
        /\ attn.nan = {}

\* C1 for the dense variant alone, where the code does fill with finfo.min.
C1_DenseFinite ==
    (Called /\ attn.kind = "dense") =>
        /\ \A c \in Cells : ~attn.eff[c] => attn.scores[c] = "min"
        /\ attn.nan = {}

C1_DenseAllMaskedRow ==
    /\ Called /\ attn.kind = "dense" /\ ~attn.mask.null
    /\ \E r \in Rows : RowBlocked(r)

\* C2: with an external mask, the mask that reaches the scores is, for every
\* batch, head, query and key, sparse[q,k] /\ external[b,q,k], the same for
\* every head; a key the external mask blocks gets no positive weight.
C2_EffectiveMaskIsAnd ==
    (Called /\ attn.kind = "sparse" /\ ~attn.mask.null) =>
        LET sparse == create_sparse_mask(attn.Tq, attn.self.block_size,
                                         attn.self.stride, attn.self.causal)
        IN  \A c \in Cells :
                /\ attn.eff[c] = (sparse[c[3], c[4]] /\ External(c[1], c[3], c[4]))
                /\ \A h2 \in 1 .. attn.self.h : attn.eff[c[1], h2, c[3], c[4]] = attn.eff[c]
                /\ ~External(c[1], c[3], c[4]) =>
                        /\ ~attn.eff[c]
                        /\ attn.scores[c] # "fin"
                        /\ attn.weights[c] # "pos"

\* Two heads, two batch elements with different external rows, and a key the
\* sparse pattern allows but the external mask blocks.
C2_Witness ==
    /\ Called /\ attn.kind = "sparse" /\ ~attn.mask.null
    /\ attn.self.h = 2 /\ attn.B = 2 /\ attn.mask.Bm = 2 /\ attn.Tq = 2
    /\ \E k \in Pos(attn.Tk) : External(1, 0, k) # External(2, 0, k)
    /\ \E c \in Cells :
          /\ ~External(c[1], c[3], c[4])
          /\ create_sparse_mask(attn.Tq, attn.self.block_size, attn.self.stride,
                                attn.self.causal)[c[3], c[4]]
          /\ attn.weights[c] = "zero"

\* C3: in decoder self-attention no query attends a later key, with or
\* without a decoder mask.
C3_DecoderCausal ==
    (Called /\ attn.kind = "sparse" /\ attn.role = "decoder") =>
        \A c \in Cells : c[4] > c[3] => ~attn.eff[c]

\* A decoder call without a mask, where an earlier key is attended.
C3_Witness ==
    /\ Called /\ attn.kind = "sparse" /\ attn.role = "decoder"
    /\ attn.mask.null /\ attn.Tq = MaxT
    /\ \E c \in Cells : c[4] < c[3] /\ attn.eff[c]

\* C10: two sparse forward calls with the same parameters, q and mask
\* return the same output whatever is passed as k and v.
C10_IgnoresKV ==
    pair.kind = "pair" => pair.out1 = pair.out2

C10_Witness ==
    /\ pair.kind = "pair"
    /\ pair.k1 # pair.k2 /\ pair.v1 # pair.v2 /\ pair.k1 # pair.q
    /\ pair.out1.term = Linear("w_o", <<"attend", compute_qkv(pair.self, pair.q)>>)

----------------------------------------------------------------------------
(* build_sparse_transformer.                                               *)

\* PositionalEncoding.__init__: pe[:, 0::2] has ceil(d/2) columns, like
\* div_term; pe[:, 1::2] has floor(d/2), and the cos assignment must
\* broadcast ceil(d/2) columns onto them.
PositionalEncoding_init(d_model, seq_len) ==
    LET even == (d_model + 1) \div 2
        odd == d_model \div 2
    IN  IF even = odd \/ even = 1
        THEN [ok |-> TRUE, d_model |-> d_model, seq_len |-> seq_len]
        ELSE Err("RuntimeError")

EncoderBlock_init(i, self_attention_block) ==
    [ok |-> TRUE, id |-> i, self_attention_block |-> self_attention_block]

DecoderBlock_init(i, self_attention_block, cross_attention_block) ==
    [ok |-> TRUE, id |-> i, self_attention_block |-> self_attention_block,
     cross_attention_block |-> cross_attention_block]

\* The loops of lines 346-361; the first failing constructor ends the build.
build_sparse_transformer(p) ==
    LET src_pos == PositionalEncoding_init(p.d_model, p.src_seq_len)
        tgt_pos == PositionalEncoding_init(p.d_model, p.tgt_seq_len)
        enc_attn == encoder_self_attention_block(p.d_model, p.h, p.block_size, p.stride)
        dec_attn == decoder_self_attention_block(p.d_model, p.h, p.block_size, p.stride)
        dec_cross == decoder_cross_attention_block(p.d_model, p.h)
    IN  IF ~src_pos.ok THEN src_pos
        ELSE IF ~tgt_pos.ok THEN tgt_pos
        ELSE IF p.N > 0 /\ ~enc_attn.ok THEN enc_attn
        ELSE IF p.N > 0 /\ ~dec_attn.ok THEN dec_attn
        ELSE IF p.N > 0 /\ ~dec_cross.ok THEN dec_cross
        ELSE [ok |-> TRUE, N |-> p.N,
              src_pos |-> src_pos, tgt_pos |-> tgt_pos,
              encoder |-> [layers |-> [i \in 1 .. p.N |-> EncoderBlock_init(i, enc_attn)]],
              decoder |-> [layers |-> [i \in 1 .. p.N |->
                                          DecoderBlock_init(i, dec_attn, dec_cross)]]]

\* The hyperparameters tried, the usual ones first.
Widths == [i \in 1 .. MaxDModel - 1 |-> MaxDModel + 1 - i]
HeadCounts == [i \in 1 .. MaxHeads + 1 |-> (i + 1) % (MaxHeads + 1)]
LayerCounts == [i \in 1 .. MaxLayers + 1 |-> i % (MaxLayers + 1)]
Sizes == <<1, 2, 0, -1>>        \* block_size and stride

Build ==
    /\ built.kind = "none"
    /\ \E bi \in DOMAIN Sizes, si \in DOMAIN Sizes, len \in {1, MaxLen} :
       \E di \in DOMAIN Widths, hi \in DOMAIN HeadCounts, ni \in DOMAIN LayerCounts :
          LET p == [d_model |-> Widths[di], N |-> LayerCounts[ni], h |-> HeadCounts[hi],
                    block_size |-> Sizes[bi], stride |-> Sizes[si],
                    src_seq_len |-> MaxLen, tgt_seq_len |-> len]
          IN  /\ hp' = p
              /\ built' = [kind |-> "built", result |-> build_sparse_transformer(p)]

BuildReturn ==
    /\ built.kind # "none"
    /\ hp' = NoCall /\ built' = NoCall

varsBuild == <<attn, pair, model, args, pc, layer, heap, trace, hd>>
InitBuild == hp = NoCall /\ built = NoCall /\ IdleAttn /\ IdlePair /\ IdleFwd /\ IdleHeads
NextBuild ==
    \/ Build /\ UNCHANGED varsBuild
    \/ BuildReturn /\ UNCHANGED varsBuild
SpecBuild == InitBuild /\ [][NextBuild]_vars

Divisible(d_model, h) == h # 0 /\ d_model % h = 0

\* C4: whatever N and h, a d_model that num_heads does not divide makes the
\* build fail; no model is returned.
C4_IndivisibleFails ==
    (built.kind = "built" /\ ~Divisible(hp.d_model, hp.h)) => ~built.result.ok

\* C4 where at least one layer is built.
C4_IndivisibleFailsWithLayers ==
    (built.kind = "built" /\ hp.N >= 1 /\ ~Divisible(hp.d_model, hp.h)) =>
        ~built.result.ok

\* C5: a block_size or stride that is not positive makes the build fail.
C5_NonPositiveFails ==
    (built.kind = "built" /\ (hp.block_size <= 0 \/ hp.stride <= 0)) =>
        ~built.result.ok

----------------------------------------------------------------------------
(* Transformer.forward, one step per module call.                          *)
(*                                                                         *)
(* A tensor is a reference [obj, storage]: a view is a new object on the   *)
(* storage of its base.  heap[n] tells whether the data stored under n, or *)
(* the metadata (shape, flags) of the object n, were written in place.     *)

Persistent == {"parameters", "src_pos.pe", "tgt_pos.pe", "encoder_input",
               "decoder_input", "encoder_mask", "decoder_mask"}
Temporaries == {"src", "tgt", "encoder_output", "decoder_output", "proj_output",
                "pe_view", "mask_view", "attn_mask", "scores", "attention_scores", "x"}

Clean == [data |-> FALSE, meta |-> FALSE]
CleanHeap == [n \in Persistent \cup Temporaries |-> Clean]

Ref(n) == [obj |-> n, storage |-> n]
NullRef == [obj |-> "None", storage |-> "None"]
View(t, n) == [obj |-> n, storage |-> t.storage]

\* A fresh tensor named n, the result of an out-of-place operation.
Alloc(h, n) == [h EXCEPT ![n] = Clean]
WriteData(h, t) == [h EXCEPT ![t.storage].data = TRUE]
WriteMeta(h, t) == [h EXCEPT ![t.obj].meta = TRUE]

\* InputEmbeddings.forward: a lookup and a product, both out of place.
InputEmbeddings_forward(h, ids, out) == Alloc(h, out)

\* pe[:, :T, :] has min(T, seq_len) rows; x + it must broadcast.
PositionalEncoding_fits(pos, T) ==
    LET rows == IF T < pos.seq_len THEN T ELSE pos.seq_len
    IN  rows = T \/ rows = 1 \/ T = 1

\* PositionalEncoding.forward: requires_grad_ acts on the slice, a view
\* object of its own; the sum is a new tensor.
PositionalEncoding_forward(h, pe, out) ==
    LET pe_view == View(Ref(pe), "pe_view")
        h1 == WriteMeta(Alloc(h, "pe_view"), pe_view)
    IN  Alloc(h1, out)

\* mask.unsqueeze_(1): the in-place twin of unsqueeze.
unsqueeze_inplace(h, mask) == [heap |-> WriteMeta(h, mask), ref |-> mask]

\* mask.unsqueeze(1): a view, the mask itself keeps its shape.
unsqueeze(h, mask) == [heap |-> Alloc(h, "mask_view"), ref |-> View(mask, "mask_view")]

\* SparseMultiHeadAttentionBlock.forward on the heap: views of the mask, a
\* new attn_mask, masked_fill (out of place) on new scores.
SparseForward_heap(h, mask, dim) ==
    LET u == IF mask # NullRef /\ dim = 3 THEN unsqueeze(h, mask)
             ELSE [heap |-> h, ref |-> mask]
        h1 == IF mask # NullRef THEN Alloc(u.heap, "attn_mask") ELSE u.heap
    IN  Alloc(Alloc(h1, "scores"), "x")

\* MultiHeadAttentionBlock.forward on the heap: masked_fill_ writes the
\* scores it has just computed.
DenseForward_heap(h, mask) ==
    LET attention_scores == Ref("attention_scores")
        h1 == Alloc(h, "attention_scores")
        h2 == IF mask # NullRef THEN WriteData(h1, attention_scores) ELSE h1
    IN  Alloc(h2, "x")

Event(stack, i, op, block, causal, kv, mask) ==
    [stack |-> stack, layer |-> i, op |-> op, block |-> block, causal |-> causal,
     kv |-> kv, mask |-> mask]

ResidualNorm(stack, i) == Event(stack, i, "residual.norm", "-", FALSE, "-", "-")

\* EncoderBlock.forward(x, src_mask): residual(self-attention), residual(ff).
EncoderBlock_forward(blk, src_mask) ==
    << ResidualNorm("encoder", blk.id),
       Event("encoder", blk.id, "self_attention", blk.self_attention_block.kind,
             blk.self_attention_block.causal, "x", src_mask),
       ResidualNorm("encoder", blk.id),
       Event("encoder", blk.id, "feed_forward", "-", FALSE, "-", "-") >>

DecoderBlock_forward_ffFirst(blk, encoder_output, src_mask, tgt_mask) ==
    << ResidualNorm("decoder", blk.id),
       Event("decoder", blk.id, "self_attention", blk.self_attention_block.kind,
             blk.self_attention_block.causal, "x", tgt_mask),
       ResidualNorm("decoder", blk.id),
       Event("decoder", blk.id, "feed_forward", "-", FALSE, "-", "-"),
       ResidualNorm("decoder", blk.id),
       Event("decoder", blk.id, "cross_attention", blk.cross_attention_block.kind,
             FALSE, encoder_output, src_mask) >>

\* DecoderBlock.forward(x, encoder_output, src_mask, tgt_mask).
DecoderBlock_forward(blk, encoder_output, src_mask, tgt_mask) ==
    << ResidualNorm("decoder", blk.id),
       Event("decoder", blk.id, "self_attention", blk.self_attention_block.kind,
             blk.self_attention_block.causal, "x", tgt_mask),
       ResidualNorm("decoder", blk.id),
       Event("decoder", blk.id, "cross_attention", blk.cross_attention_block.kind,
             FALSE, encoder_output, src_mask),
       ResidualNorm("decoder", blk.id),
       Event("decoder", blk.id, "feed_forward", "-", FALSE, "-", "-") >>

FinalNorm(stack) == Event(stack, 0, "norm", "-", FALSE, "-", "-")

MaskRef(name, dim) == IF dim = 0 THEN NullRef ELSE Ref(name)
MaskName(name, dim) == IF dim = 0 THEN "None" ELSE name

\* A caller's new input tensors replace the previous call's.
Forward ==
    /\ pc = "idle"
    /\ \E Ts \in 1 .. MaxLen + 1, Tt \in 1 .. MaxLen + 1 :
       \E em \in {0, 3, 4}, dm \in {0, 3, 4} :
          args' = [kind |-> "call", T_src |-> Ts, T_tgt |-> Tt, encoder_mask |-> em, decoder_mask |-> dm]
    /\ heap' = [n \in DOMAIN heap |->
                   IF n \in {"parameters", "src_pos.pe", "tgt_pos.pe"} THEN heap[n]
                   ELSE Clean]
    /\ pc' = "src_embed" /\ layer' = 0 /\ trace' = <<>>
    /\ UNCHANGED model

SrcEmbed ==
    /\ pc = "src_embed"
    /\ heap' = InputEmbeddings_forward(heap, Ref("encoder_input"), "src")
    /\ pc' = "src_pos"
    /\ UNCHANGED <<model, args, layer, trace>>

SrcPos ==
    /\ pc = "src_pos"
    /\ IF PositionalEncoding_fits(model.src_pos, args.T_src)
       THEN /\ heap' = PositionalEncoding_forward(heap, "src_pos.pe", "src")
            /\ pc' = "encoder" /\ layer' = 1
       ELSE /\ pc' = "error" /\ UNCHANGED <<heap, layer>>
    /\ UNCHANGED <<model, args, trace>>

\* Encoder.forward: for layer in self.layers, then self.norm.
EncoderLayer ==
    /\ pc = "encoder" /\ layer <= Len(model.encoder.layers)
    /\ trace' = trace \o EncoderBlock_forward(model.encoder.layers[layer],
                                              MaskName("encoder_mask", args.encoder_mask))
    /\ heap' = SparseForward_heap(heap, MaskRef("encoder_mask", args.encoder_mask),
                                  args.encoder_mask)
    /\ layer' = layer + 1
    /\ UNCHANGED <<model, args, pc>>

EncoderNorm ==
    /\ pc = "encoder" /\ layer > Len(model.encoder.layers)
    /\ trace' = Append(trace, FinalNorm("encoder"))
    /\ heap' = Alloc(heap, "encoder_output")
    /\ pc' = "tgt_embed"
    /\ UNCHANGED <<model, args, layer>>

TgtEmbed ==
    /\ pc = "tgt_embed"
    /\ heap' = InputEmbeddings_forward(heap, Ref("decoder_input"), "tgt")
    /\ pc' = "tgt_pos"
    /\ UNCHANGED <<model, args, layer, trace>>

TgtPos ==
    /\ pc = "tgt_pos"
    /\ IF PositionalEncoding_fits(model.tgt_pos, args.T_tgt)
       THEN /\ heap' = PositionalEncoding_forward(heap, "tgt_pos.pe", "tgt")
            /\ pc' = "decoder" /\ layer' = 1
       ELSE /\ pc' = "error" /\ UNCHANGED <<heap, layer>>
    /\ UNCHANGED <<model, args, trace>>

\* Decoder.forward(tgt, encoder_output, encoder_mask, decoder_mask).
DecoderLayer ==
    /\ pc = "decoder" /\ layer <= Len(model.decoder.layers)
    /\ trace' = trace \o DecoderBlock_forward(model.decoder.layers[layer], "encoder_output",
                                              MaskName("encoder_mask", args.encoder_mask),
                                              MaskName("decoder_mask", args.decoder_mask))
    /\ heap' = DenseForward_heap(
                  SparseForward_heap(heap, MaskRef("decoder_mask", args.decoder_mask),
                                     args.decoder_mask),
                  MaskRef("encoder_mask", args.encoder_mask))
    /\ layer' = layer + 1
    /\ UNCHANGED <<model, args, pc>>

DecoderNorm ==
    /\ pc = "decoder" /\ layer > Len(model.decoder.layers)
    /\ trace' = Append(trace, FinalNorm("decoder"))
    /\ heap' = Alloc(heap, "decoder_output")
    /\ pc' = "project"
    /\ UNCHANGED <<model, args, layer>>

Project ==
    /\ pc = "project"
    /\ heap' = Alloc(heap, "proj_output")
    /\ pc' = "done"
    /\ UNCHANGED <<model, args, layer, trace>>

\* The call returns its logits, or raises.
ForwardReturn ==
    /\ pc \in {"done", "error"}
    /\ pc' = "idle"
    /\ UNCHANGED <<model, args, layer, heap, trace>>

\* The models of the forward pass: built by build_sparse_transformer.
FwdHyper ==
    [d_model : {2}, N : 0 .. MaxLayers, h : {1}, block_size : {2}, stride : {2},
     src_seq_len : 1 .. MaxLen, tgt_seq_len : 1 .. MaxLen]

varsFwd == <<attn, pair, hp, built, hd>>
InitFwd ==
    /\ model \in { build_sparse_transformer(p) : p \in FwdHyper }
    /\ model.ok
    /\ args = NoCall /\ pc = "idle" /\ layer = 0 /\ heap = CleanHeap /\ trace = <<>>
    /\ IdleAttn /\ IdlePair /\ IdleBuild /\ IdleHeads
NextFwd ==
    \/ Forward /\ UNCHANGED varsFwd
    \/ SrcEmbed /\ UNCHANGED varsFwd
    \/ SrcPos /\ UNCHANGED varsFwd
    \/ EncoderLayer /\ UNCHANGED varsFwd
    \/ EncoderNorm /\ UNCHANGED varsFwd
    \/ TgtEmbed /\ UNCHANGED varsFwd
    \/ TgtPos /\ UNCHANGED varsFwd
    \/ DecoderLayer /\ UNCHANGED varsFwd
    \/ DecoderNorm /\ UNCHANGED varsFwd
    \/ Project /\ UNCHANGED varsFwd
    \/ ForwardReturn /\ UNCHANGED varsFwd
SpecFwd == InitFwd /\ [][NextFwd]_vars

----------------------------------------------------------------------------
(* Claims about Transformer.forward (SpecFwd).                             *)

InCall == args.kind = "call"

\* C6: an input longer than the positional table makes
\* PositionalEncoding.forward, and so Transformer.forward, fail.
C6_TooLongFails ==
    InCall =>
        /\ pc \in {"encoder", "tgt_embed", "tgt_pos", "decoder", "project", "done"}
              => args.T_src <= model.src_pos.seq_len
        /\ pc \in {"decoder", "project", "done"}
              => args.T_tgt <= model.tgt_pos.seq_len

\* C8: no forward call writes the parameters, the positional tables, the
\* token ids or the masks, and the layer lists stay as constructed.
C8_ForwardReadsOnly ==
    pc # "none" =>
        /\ \A n \in Persistent : heap[n] = Clean
        /\ Len(model.encoder.layers) = model.N
        /\ Len(model.decoder.layers) = model.N
        /\ \A i \in 1 .. model.N :
              model.encoder.layers[i].id = i /\ model.decoder.layers[i].id = i

\* A finished call with 3-dimensional masks, whose cross-attention filled
\* its scores in place.
C8_Witness ==
    /\ pc = "done" /\ model.N >= 1
    /\ args.encoder_mask = 3 /\ args.decoder_mask = 3
    /\ heap["attention_scores"].data

Sublayers == SelectSeq(trace, LAMBDA e : e.op # "residual.norm")

EncoderOrder(N, em) ==
    [j \in 1 .. 2 * N |->
        IF j % 2 = 1
        THEN Event("encoder", (j + 1) \div 2, "self_attention", "sparse", FALSE, "x", em)
        ELSE Event("encoder", j \div 2, "feed_forward", "-", FALSE, "-", "-")]
    \o << FinalNorm("encoder") >>

DecoderOrder(N, em, dm) ==
    [j \in 1 .. 3 * N |->
        CASE j % 3 = 1 ->
                Event("decoder", (j + 2) \div 3, "self_attention", "sparse", TRUE, "x", dm)
          [] j % 3 = 2 ->
                Event("decoder", (j + 1) \div 3, "cross_attention", "dense", FALSE,
                      "encoder_output", em)
          [] j % 3 = 0 ->
                Event("decoder", j \div 3, "feed_forward", "-", FALSE, "-", "-")]
    \o << FinalNorm("decoder") >>

IsPrefix(s, t) == Len(s) <= Len(t) /\ SubSeq(t, 1, Len(s)) = s

\* C9: per layer in construction order, the decoder runs sparse causal
\* self-attention (decoder mask), dense cross-attention on the encoder
\* output (encoder mask), feed-forward; the encoder self-attention then
\* feed-forward; each stack normalizes once, after its last layer.
C9_SublayerOrder ==
    InCall =>
        LET order == EncoderOrder(model.N, MaskName("encoder_mask", args.encoder_mask))
                     \o DecoderOrder(model.N, MaskName("encoder_mask", args.encoder_mask),
                                     MaskName("decoder_mask", args.decoder_mask))
        IN  /\ IsPrefix(Sublayers, order)
            /\ pc = "done" => Sublayers = order
            /\ pc \in {"tgt_embed", "tgt_pos"} => Len(Sublayers) = 2 * model.N + 1

C9_Witness ==
    /\ pc = "done" /\ model.N >= 2
    /\ args.encoder_mask # 0 /\ args.decoder_mask # 0

----------------------------------------------------------------------------
(* Splitting into heads and merging them back, on strided tensors: a       *)
(* tensor is [shape, strides, data], data the flat storage (offset 0 at    *)
(* data[1]); view and transpose share the storage, contiguous copies it.   *)

RECURSIVE Prod(_)
Prod(shape) == IF shape = <<>> THEN 1 ELSE Head(shape) * Prod(Tail(shape))

ContigStrides(shape) ==
    [i \in 1 .. Len(shape) |-> Prod(SubSeq(shape, i + 1, Len(shape)))]

RECURSIVE Offset(_, _)
Offset(idx, strides) ==
    IF idx = <<>> THEN 0
    ELSE Head(idx) * Head(strides) + Offset(Tail(idx), Tail(strides))

\* The index of the p-th element (from 0) in row-major order.
Unravel(p, shape) ==
    [i \in 1 .. Len(shape) |-> (p \div ContigStrides(shape)[i]) % shape[i]]

Indices(shape) == { Unravel(p, shape) : p \in 0 .. Prod(shape) - 1 }

At(t, idx) == t.data[1 + Offset(idx, t.strides)]

\* x.view(shape): the same storage read with new row-major strides; defined
\* for a contiguous tensor of as many elements.
view(t, shape) ==
    IF t.strides = ContigStrides(t.shape) /\ Prod(shape) = Prod(t.shape)
    THEN [shape |-> shape, strides |-> ContigStrides(shape), data |-> t.data]
    ELSE [shape |-> <<>>, strides |-> <<>>, data |-> <<>>]

\* x.transpose(i, j), dimensions counted from 1 here.
transpose(t, i, j) ==
    [t EXCEPT !.shape = [t.shape EXCEPT ![i] = t.shape[j], ![j] = t.shape[i]],
              !.strides = [t.strides EXCEPT ![i] = t.strides[j], ![j] = t.strides[i]]]

contiguous(t) ==
    [shape |-> t.shape, strides |-> ContigStrides(t.shape),
     data |-> [p \in 1 .. Prod(t.shape) |-> At(t, Unravel(p - 1, t.shape))]]

\* compute_qkv / MultiHeadAttentionBlock.forward:
\* x.view(B, T, h, d_k).transpose(1, 2).
split_heads(x, B, T, h, d_k) == transpose(view(x, <<B, T, h, d_k>>), 2, 3)

\* A merge that forgets the transpose.
merge_heads_noTranspose(x, h, d_k) ==
    view(contiguous(x), <<x.shape[1], Prod(x.shape) \div (x.shape[1] * h * d_k), h * d_k>>)

\* output_projection: x.transpose(1, 2).contiguous().view(B, -1, h * d_k).
merge_heads(x, h, d_k) ==
    view(contiguous(transpose(x, 2, 3)),
         <<x.shape[1], Prod(x.shape) \div (x.shape[1] * h * d_k), h * d_k>>)

\* The inputs: all elements distinct, or one element marked.
HeadInputs(n) ==
    { [p \in 1 .. n |-> p] } \cup { [p \in 1 .. n |-> IF p = m THEN 1 ELSE 0] : m \in 1 .. n }

HeadsInput ==
    /\ hd.kind = "none"
    /\ \E B \in Batches, T \in 1 .. MaxT, h \in Heads, d_k \in HeadWidth :
       \E data \in HeadInputs(B * T * h * d_k) :
          LET shape == <<B, T, h * d_k>>
              x == [shape |-> shape, strides |-> ContigStrides(shape), data |-> data]
          IN  hd' = [kind |-> "input", B |-> B, T |-> T, h |-> h, d_k |-> d_k,
                     x |-> x, y |-> x]

HeadsSplit ==
    /\ hd.kind = "input"
    /\ hd' = [hd EXCEPT !.kind = "split",
                        !.y = split_heads(hd.x, hd.B, hd.T, hd.h, hd.d_k)]

HeadsMerge ==
    /\ hd.kind = "split"
    /\ hd' = [hd EXCEPT !.kind = "merged", !.y = merge_heads(hd.y, hd.h, hd.d_k)]

HeadsReturn == hd.kind = "merged" /\ hd' = NoCall

varsHeads == <<attn, pair, hp, built, model, args, pc, layer, heap, trace>>
InitHeads == hd = NoCall /\ IdleAttn /\ IdlePair /\ IdleBuild /\ IdleFwd
NextHeads ==
    \/ HeadsInput /\ UNCHANGED varsHeads
    \/ HeadsSplit /\ UNCHANGED varsHeads
    \/ HeadsMerge /\ UNCHANGED varsHeads
    \/ HeadsReturn /\ UNCHANGED varsHeads
SpecHeads == InitHeads /\ [][NextHeads]_vars

\* C7: splitting a (B, T, D) tensor into heads gives shape (B, H, T, Dk)
\* with the same values regrouped, and merging gives back shape (B, T, D)
\* with every element where it was.
C7_SplitMergeIdentity ==
    /\ hd.kind = "split" =>
          /\ hd.y.shape = <<hd.B, hd.h, hd.T, hd.d_k>>
          /\ \A i \in Indices(hd.y.shape) :
                At(hd.y, i) = At(hd.x, <<i[1], i[3], (i[2] * hd.d_k) + i[4]>>)
    /\ hd.kind = "merged" =>
          /\ hd.y.shape = <<hd.B, hd.T, hd.h * hd.d_k>>
          /\ \A i \in Indices(hd.y.shape) : At(hd.y, i) = At(hd.x, i)

\* Two heads of width two over two positions, all elements distinct.
C7_Witness ==
    /\ hd.kind = "merged" /\ hd.h = 2 /\ hd.d_k = 2 /\ hd.T = 2 /\ hd.B = 2
    /\ \A i \in 1 .. Len(hd.x.data) : hd.x.data[i] = i
    /\ hd.y.data = hd.x.data

====
